---- MODULE Spec2Model ----
(***************************************************************************)
(* University management backend (FastAPI + SQLModel).                     *)
(*                                                                         *)
(* The record store is five tables (user, student, instructor, course,    *)
(* enrollment).  Every route handler is a function of the store, the       *)
(* authenticated principal and the request, giving a response code and the *)
(* store after the request.  The handlers are written below as operators   *)
(* over an explicit store value `db`; the actions apply them to the state. *)
(***************************************************************************)
EXTENDS Integers, FiniteSets, Sequences, TLC

VARIABLES
    users,        \* table "user":        rows [id, email, role, is_active]
    students,     \* table "student":     rows [id, user_id, student_id, address]
    instructors,  \* table "instructor":  rows [id, user_id, employee_id, department]
    courses,      \* table "course":      rows [id, course_code, instructor_id, max_students]
    enrollments,  \* table "enrollment":  rows [id, student_id, course_id, status, grade]
    last,         \* the response to the last request (see Answered)
    reqs          \* requests in flight: SpecConc, the create_enrollment requests;
                  \* SpecDir, the router driven and the row waiting for its commit

tables == <<users, students, instructors, courses, enrollments>>
vars == <<users, students, instructors, courses, enrollments, last, reqs>>

-----------------------------------------------------------------------------
(* Bounds of the model *)

MaxEnrollments == 2     \* largest enrollment id assigned
MaxUsers == 5           \* largest user id assigned
MaxStudents == 2        \* largest student id assigned
MaxInstructors == 2     \* largest instructor id assigned
MaxCourses == 2         \* largest course id assigned
NumRequests == 2        \* concurrent create_enrollment requests

\* The largest id assigned in each table.
MaxId == [users |-> MaxUsers, students |-> MaxStudents,
          instructors |-> MaxInstructors, courses |-> MaxCourses,
          enrollments |-> MaxEnrollments]

-----------------------------------------------------------------------------
(* Enumerations of app/models.py *)

ADMIN == "admin"
STUDENT == "student"
INSTRUCTOR == "instructor"
UserRole == {ADMIN, STUDENT, INSTRUCTOR}

ENROLLED == "enrolled"
COMPLETED == "completed"
DROPPED == "dropped"
FAILED == "failed"
EnrollmentStatusEnum == {ENROLLED, COMPLETED, DROPPED, FAILED}

None == "None"      \* Python None / SQL NULL

HTTP_200_OK == 200
HTTP_400_BAD_REQUEST == 400
HTTP_403_FORBIDDEN == 403
HTTP_404_NOT_FOUND == 404
HTTP_500_INTERNAL_SERVER_ERROR == 500

-----------------------------------------------------------------------------
(* The record store *)

DB == [users |-> users, students |-> students, instructors |-> instructors,
       courses |-> courses, enrollments |-> enrollments]

EmptyDB == [users |-> {}, students |-> {}, instructors |-> {},
            courses |-> {}, enrollments |-> {}]

Ids(table) == {r.id : r \in table}

Max(S) == CHOOSE m \in S : \A x \in S : x <= m

\* INTEGER PRIMARY KEY of the default sqlite store: one more than the largest
\* id in use.
NextId(table) == IF table = {} THEN 1 ELSE Max(Ids(table)) + 1

\* The result of .first() on an empty result set (Python None); ids start at 1.
NoRow == [id |-> 0]

\* select(T).where(T.id == id).first(): the row, or NoRow.
First(table, id) ==
    IF \E r \in table : r.id = id THEN CHOOSE r \in table : r.id = id ELSE NoRow

\* The id arguments a request may carry: every id in use and one that is not.
IdArgs(table) == Ids(table) \cup {NextId(table)}

\* Mutant of ApplyUpdate: update.dict() without exclude_unset, the fields of
\* EnrollmentUpdate the request left out being set to None.
ApplyUpdate_unset_as_none(row, update) ==
    [f \in DOMAIN row |-> IF f \in DOMAIN update THEN update[f]
                          ELSE IF f \in {"status", "grade"} THEN "None"
                          ELSE row[f]]

\* for field, value in update.dict(exclude_unset=True).items():
\*     setattr(row, field, value)
\* An update body is a record of the fields the request sets, and only those.
ApplyUpdate(row, update) ==
    [f \in DOMAIN row |-> IF f \in DOMAIN update THEN update[f] ELSE row[f]]

\* The update bodies over two optional fields f and g.
NoFields == [f \in {} |-> f]
Bodies2(f, F, g, G) ==
    {NoFields} \cup {(f :> x) : x \in F} \cup {(g :> y) : y \in G}
               \cup {(f :> x) @@ (g :> y) : x \in F, y \in G}

\* The update bodies over one optional field f.
Bodies1(f, F) == {NoFields} \cup {(f :> x) : x \in F}

\* The natural keys a request may carry: every key in use and one that is not.
KeyArgs(table, field) ==
    LET used == {r[field] : r \in table}
        free == (1..(Cardinality(used) + 1)) \ used
    IN  used \cup {CHOOSE k \in free : \A x \in free : k <= x}

\* Mutant of by_key: the lookup finds nothing.
by_key_none(table, field, value) == {}

\* select(T).where(T.field == value): the rows of the table with that value.
by_key(table, field, value) == {r \in table : r[field] = value}

\* Mutant of dependents: session.delete(row) never touches another table.
dependents_none(rows, field, id) == {}

\* The rows that reference row id through a relationship of app/models.py
\* (Student.enrollments, line 80; Instructor.courses, line 112;
\* Course.enrollments, line 144).  session.delete of the referenced row makes
\* the unit of work set their referencing column to NULL, and that column is
\* a required int (lines 136, 170, 171): with a dependent row the commit
\* raises IntegrityError, which no handler catches, and nothing is deleted.
dependents(rows, field, id) == {x \in rows : x[field] = id}

Response(code, detail, db) == [code |-> code, detail |-> detail, db |-> db]

\* The 200 response of a list endpoint: the rows returned.
Listing(rows, db) == [code |-> HTTP_200_OK, detail |-> "", db |-> db, rows |-> rows]

\* CourseRead.enrolled_count when no handler sets it (Optional[int] = None,
\* models.py line 165).
NoCount == -1

\* The CourseRead serialised from a course row: its columns and the
\* enrolled_count attribute the handler attached, if any.
CourseRead(course, count) == course @@ ("enrolled_count" :> count)

\* Depends(get_current_active_user): the bearer token resolves to an active User.
get_current_active_user(db) == {u \in db.users : u.is_active}

-----------------------------------------------------------------------------
(* app/routes/enrollments.py *)

\* Mutant of enrolled_count: the count query without its status filter.
enrolled_count_any_status(db, course_id) ==
    Cardinality({e \in db.enrollments : e.course_id = course_id})

\* select(func.count(Enrollment.id)).where(course_id == c, status == ENROLLED)
enrolled_count(db, course_id) ==
    Cardinality({e \in db.enrollments :
                    e.course_id = course_id /\ e.status = ENROLLED})

\* Mutant of create_enrollment_denied: every instructor is authorized, not
\* only the one of the course.
create_enrollment_denied_by_role(current_user, student, instructor) ==
    /\ current_user.role \notin {ADMIN, INSTRUCTOR}
    /\ current_user.id # student.user_id

\* An unauthorized principal of create_enrollment (the condition of line 51).
create_enrollment_denied(current_user, student, instructor) ==
    /\ current_user.role # ADMIN
    /\ current_user.id # student.user_id
    /\ (instructor = NoRow \/ current_user.id # instructor.user_id)

\* Mutant of existing_enrollment: the duplicate query without its status filter.
existing_enrollment_any_status(db, student_id, course_id) ==
    {e \in db.enrollments : /\ e.student_id = student_id
                            /\ e.course_id = course_id}

\* The active-duplicate query of create_enrollment (lines 62-68).
existing_enrollment(db, student_id, course_id) ==
    {e \in db.enrollments : /\ e.student_id = student_id
                            /\ e.course_id = course_id
                            /\ e.status = ENROLLED}

\* Mutant of course_full: the comparison off by one.
course_full_off_by_one(count, course) == count > course.max_students

\* The capacity test of create_enrollment (line 83).
course_full(count, course) == count >= course.max_students

\* Enrollment(**enrollment_data.dict()) with the defaults of EnrollmentBase.
new_enrollment(db, enrollment_data) ==
    [id |-> NextId(db.enrollments),
     student_id |-> enrollment_data.student_id,
     course_id |-> enrollment_data.course_id,
     status |-> ENROLLED,
     grade |-> None]

create_enrollment(db, current_user, enrollment_data) ==
    LET student == First(db.students, enrollment_data.student_id)
        course == First(db.courses, enrollment_data.course_id)
    IN  IF student = NoRow
        THEN Response(HTTP_404_NOT_FOUND, "Student not found", db)
        ELSE IF course = NoRow
        THEN Response(HTTP_404_NOT_FOUND, "Course not found", db)
        ELSE LET instructor == First(db.instructors, course.instructor_id) IN
        IF create_enrollment_denied(current_user, student, instructor)
        THEN Response(HTTP_403_FORBIDDEN, "Not authorized to create enrollment", db)
        ELSE IF existing_enrollment(db, enrollment_data.student_id,
                                    enrollment_data.course_id) # {}
        THEN Response(HTTP_400_BAD_REQUEST,
                      "Student is already enrolled in this course", db)
        ELSE IF course_full(enrolled_count(db, enrollment_data.course_id), course)
        THEN Response(HTTP_400_BAD_REQUEST, "Course is full", db)
        ELSE Response(HTTP_200_OK, "",
                 [db EXCEPT !.enrollments =
                      @ \cup {new_enrollment(db, enrollment_data)}])

\* Mutant of student_drop_only: the student-owner branch without its status test.
student_drop_only_unchecked(enrollment_update) == FALSE

\* The student-owner branch of update_enrollment rejects the request (line 219).
student_drop_only(enrollment_update) ==
    /\ "status" \in DOMAIN enrollment_update
    /\ enrollment_update.status # None
    /\ enrollment_update.status \notin {DROPPED}

update_enrollment(db, current_user, enrollment_id, enrollment_update) ==
    LET enrollment == First(db.enrollments, enrollment_id) IN
    IF enrollment = NoRow
    THEN Response(HTTP_404_NOT_FOUND, "Enrollment not found", db)
    ELSE
    LET student == First(db.students, enrollment.student_id)
        course == First(db.courses, enrollment.course_id)
        instructor == IF course # NoRow
                      THEN First(db.instructors, course.instructor_id)
                      ELSE NoRow
        updated == [db EXCEPT !.enrollments = (@ \ {enrollment}) \cup
                        {ApplyUpdate(enrollment, enrollment_update)}]
    IN  IF current_user.role = ADMIN
        THEN Response(HTTP_200_OK, "", updated)
        ELSE IF student # NoRow /\ current_user.id = student.user_id
        THEN IF student_drop_only(enrollment_update)
             THEN Response(HTTP_403_FORBIDDEN, "Students can only drop courses", db)
             ELSE Response(HTTP_200_OK, "", updated)
        ELSE IF instructor # NoRow /\ current_user.id = instructor.user_id
        THEN Response(HTTP_200_OK, "", updated)
        ELSE Response(HTTP_403_FORBIDDEN,
                      "Not authorized to update this enrollment", db)

\* Mutant of delete_enrollment: the row is deleted and committed before the
\* role is tested.
delete_enrollment_before_check(db, current_user, enrollment_id) ==
    LET enrollment == First(db.enrollments, enrollment_id)
        deleted == [db EXCEPT !.enrollments = @ \ {enrollment}]
    IN  IF current_user.role # ADMIN
        THEN Response(HTTP_403_FORBIDDEN, "Not authorized to delete enrollments",
                      deleted)
        ELSE IF enrollment = NoRow
        THEN Response(HTTP_404_NOT_FOUND, "Enrollment not found", db)
        ELSE Response(HTTP_200_OK, "Enrollment deleted successfully", deleted)

delete_enrollment(db, current_user, enrollment_id) ==
    LET enrollment == First(db.enrollments, enrollment_id) IN
    IF current_user.role # ADMIN
    THEN Response(HTTP_403_FORBIDDEN, "Not authorized to delete enrollments", db)
    ELSE IF enrollment = NoRow
    THEN Response(HTTP_404_NOT_FOUND, "Enrollment not found", db)
    ELSE Response(HTTP_200_OK, "Enrollment deleted successfully",
                  [db EXCEPT !.enrollments = @ \ {enrollment}])

get_enrollment(db, current_user, enrollment_id) ==
    LET enrollment == First(db.enrollments, enrollment_id) IN
    IF enrollment = NoRow
    THEN Response(HTTP_404_NOT_FOUND, "Enrollment not found", db)
    ELSE
    LET student == First(db.students, enrollment.student_id)
        course == First(db.courses, enrollment.course_id)
        instructor == IF course # NoRow
                      THEN First(db.instructors, course.instructor_id)
                      ELSE NoRow
    IN  IF /\ current_user.role # ADMIN
           /\ (student = NoRow \/ current_user.id # student.user_id)
           /\ (instructor = NoRow \/ current_user.id # instructor.user_id)
        THEN Response(HTTP_403_FORBIDDEN,
                      "Not authorized to view this enrollment", db)
        ELSE Response(HTTP_200_OK, "", db)

\* The filter of get_enrollments (lines 116-137): the principal is admin, or
\* owns the row's student, or owns the instructor of the row's course.
can_see(db, current_user, enrollment) ==
    LET student == First(db.students, enrollment.student_id)
        course == First(db.courses, enrollment.course_id)
        instructor == IF course # NoRow
                      THEN First(db.instructors, course.instructor_id)
                      ELSE NoRow
    IN  \/ current_user.role = ADMIN
        \/ (student # NoRow /\ current_user.id = student.user_id)
        \/ (instructor # NoRow /\ current_user.id = instructor.user_id)

\* student_id and course_id are optional query parameters, used when truthy
\* (lines 107-110): 0 stands for one that is absent.  skip and limit keep
\* their defaults (0 and 100, more rows than a store of the model holds).
get_enrollments(db, current_user, student_id, course_id) ==
    LET enrollments_ == {e \in db.enrollments :
                            /\ student_id # 0 => e.student_id = student_id
                            /\ course_id # 0 => e.course_id = course_id}
    IN  Listing({e \in enrollments_ : can_see(db, current_user, e)}, db)

-----------------------------------------------------------------------------
(* app/routes/auth.py *)

\* Mutant of new_user: is_active is copied from the request when it has one.
new_user_as_requested(db, user_data) ==
    [id |-> NextId(db.users), email |-> user_data.email,
     role |-> user_data.role,
     is_active |-> IF "is_active" \in DOMAIN user_data
                   THEN user_data.is_active ELSE TRUE]

\* User(email=..., role=user_data.role, ...) of lines 31-38: is_active is not
\* passed on, so the row has the default of app/models.py, line 39.
new_user(db, user_data) ==
    [id |-> NextId(db.users), email |-> user_data.email,
     role |-> user_data.role, is_active |-> TRUE]

register_user(db, user_data) ==
    IF by_key(db.users, "email", user_data.email) # {}
    THEN Response(HTTP_400_BAD_REQUEST, "Email already registered", db)
    ELSE Response(HTTP_200_OK, "",
             [db EXCEPT !.users = @ \cup {new_user(db, user_data)}])

-----------------------------------------------------------------------------
(* app/routes/students.py *)

\* Mutant of role_mismatch: a profile of any kind for any user.
role_mismatch_never(user, role) == FALSE

\* The user a profile is created for has not the profile's role
\* (create_student, line 48; create_instructor, line 48).
role_mismatch(user, role) == user.role # role

\* Mutant of not_profile_owner: every instructor passes, as in get_student.
not_profile_owner_by_role(current_user, profile) ==
    /\ current_user.role \notin {ADMIN, INSTRUCTOR}
    /\ current_user.id # profile.user_id

\* The principal is neither admin nor the user of the profile
\* (update_student, line 118; update_instructor, line 106).
not_profile_owner(current_user, profile) ==
    current_user.role # ADMIN /\ current_user.id # profile.user_id

\* Mutant of create_student: the role of the user is not tested.
create_student_for_any_role(db, current_user, student_data) ==
    LET user == First(db.users, student_data.user_id) IN
    IF current_user.role # ADMIN /\ current_user.id # student_data.user_id
    THEN Response(HTTP_403_FORBIDDEN, "Not authorized to create student profile", db)
    ELSE IF by_key(db.students, "student_id", student_data.student_id) # {}
    THEN Response(HTTP_400_BAD_REQUEST, "Student ID already exists", db)
    ELSE IF user = NoRow
    THEN Response(HTTP_404_NOT_FOUND, "User not found", db)
    ELSE Response(HTTP_200_OK, "",
             [db EXCEPT !.students = @ \cup
                 {[id |-> NextId(db.students), user_id |-> student_data.user_id,
                   student_id |-> student_data.student_id, address |-> None]}])

create_student(db, current_user, student_data) ==
    LET user == First(db.users, student_data.user_id) IN
    IF current_user.role # ADMIN /\ current_user.id # student_data.user_id
    THEN Response(HTTP_403_FORBIDDEN, "Not authorized to create student profile", db)
    ELSE IF by_key(db.students, "student_id", student_data.student_id) # {}
    THEN Response(HTTP_400_BAD_REQUEST, "Student ID already exists", db)
    ELSE IF user = NoRow
    THEN Response(HTTP_404_NOT_FOUND, "User not found", db)
    ELSE IF role_mismatch(user, STUDENT)
    THEN Response(HTTP_400_BAD_REQUEST, "User must have student role", db)
    ELSE Response(HTTP_200_OK, "",
             [db EXCEPT !.students = @ \cup
                 {[id |-> NextId(db.students), user_id |-> student_data.user_id,
                   student_id |-> student_data.student_id, address |-> None]}])

get_student(db, current_user, student_id) ==
    LET student == First(db.students, student_id) IN
    IF student = NoRow
    THEN Response(HTTP_404_NOT_FOUND, "Student not found", db)
    ELSE IF /\ current_user.role \notin {ADMIN, INSTRUCTOR}
            /\ current_user.id # student.user_id
    THEN Response(HTTP_403_FORBIDDEN, "Not authorized to view this student", db)
    ELSE Response(HTTP_200_OK, "", db)

update_student(db, current_user, student_id, student_update) ==
    LET student == First(db.students, student_id) IN
    IF student = NoRow
    THEN Response(HTTP_404_NOT_FOUND, "Student not found", db)
    ELSE IF not_profile_owner(current_user, student)
    THEN Response(HTTP_403_FORBIDDEN, "Not authorized to update this student", db)
    ELSE Response(HTTP_200_OK, "",
             [db EXCEPT !.students = (@ \ {student}) \cup
                 {ApplyUpdate(student, student_update)}])

delete_student(db, current_user, student_id) ==
    LET student == First(db.students, student_id) IN
    IF current_user.role # ADMIN
    THEN Response(HTTP_403_FORBIDDEN, "Not authorized to delete students", db)
    ELSE IF student = NoRow
    THEN Response(HTTP_404_NOT_FOUND, "Student not found", db)
    ELSE IF dependents(db.enrollments, "student_id", student.id) # {}
    THEN Response(HTTP_500_INTERNAL_SERVER_ERROR, "IntegrityError", db)
    ELSE Response(HTTP_200_OK, "Student deleted successfully",
                  [db EXCEPT !.students = @ \ {student}])

get_student_enrollments(db, current_user, student_id) ==
    LET student == First(db.students, student_id) IN
    IF student = NoRow
    THEN Response(HTTP_404_NOT_FOUND, "Student not found", db)
    ELSE IF /\ current_user.role \notin {ADMIN, INSTRUCTOR}
            /\ current_user.id # student.user_id
    THEN Response(HTTP_403_FORBIDDEN,
                  "Not authorized to view student enrollments", db)
    ELSE Listing({e \in db.enrollments : e.student_id = student_id}, db)

-----------------------------------------------------------------------------
(* app/routes/instructors.py *)

create_instructor(db, current_user, instructor_data) ==
    LET user == First(db.users, instructor_data.user_id) IN
    IF current_user.role # ADMIN
    THEN Response(HTTP_403_FORBIDDEN,
                  "Not authorized to create instructor profile", db)
    ELSE IF by_key(db.instructors, "employee_id",
                    instructor_data.employee_id) # {}
    THEN Response(HTTP_400_BAD_REQUEST, "Employee ID already exists", db)
    ELSE IF user = NoRow
    THEN Response(HTTP_404_NOT_FOUND, "User not found", db)
    ELSE IF role_mismatch(user, INSTRUCTOR)
    THEN Response(HTTP_400_BAD_REQUEST, "User must have instructor role", db)
    ELSE Response(HTTP_200_OK, "",
             [db EXCEPT !.instructors = @ \cup
                 {[id |-> NextId(db.instructors),
                   user_id |-> instructor_data.user_id,
                   employee_id |-> instructor_data.employee_id,
                   department |-> instructor_data.department]}])

get_instructor(db, current_user, instructor_id) ==
    IF First(db.instructors, instructor_id) = NoRow
    THEN Response(HTTP_404_NOT_FOUND, "Instructor not found", db)
    ELSE Response(HTTP_200_OK, "", db)

update_instructor(db, current_user, instructor_id, instructor_update) ==
    LET instructor == First(db.instructors, instructor_id) IN
    IF instructor = NoRow
    THEN Response(HTTP_404_NOT_FOUND, "Instructor not found", db)
    ELSE IF not_profile_owner(current_user, instructor)
    THEN Response(HTTP_403_FORBIDDEN, "Not authorized to update this instructor", db)
    ELSE Response(HTTP_200_OK, "",
             [db EXCEPT !.instructors = (@ \ {instructor}) \cup
                 {ApplyUpdate(instructor, instructor_update)}])

\* Mutant of delete_instructor: the instructor themselves passes the role
\* test, as in update_instructor.
delete_instructor_by_self(db, current_user, instructor_id) ==
    LET instructor == First(db.instructors, instructor_id) IN
    IF /\ current_user.role # ADMIN
       /\ (instructor = NoRow \/ current_user.id # instructor.user_id)
    THEN Response(HTTP_403_FORBIDDEN, "Not authorized to delete instructors", db)
    ELSE IF instructor = NoRow
    THEN Response(HTTP_404_NOT_FOUND, "Instructor not found", db)
    ELSE IF dependents(db.courses, "instructor_id", instructor.id) # {}
    THEN Response(HTTP_500_INTERNAL_SERVER_ERROR, "IntegrityError", db)
    ELSE Response(HTTP_200_OK, "Instructor deleted successfully",
                  [db EXCEPT !.instructors = @ \ {instructor}])

delete_instructor(db, current_user, instructor_id) ==
    LET instructor == First(db.instructors, instructor_id) IN
    IF current_user.role # ADMIN
    THEN Response(HTTP_403_FORBIDDEN, "Not authorized to delete instructors", db)
    ELSE IF instructor = NoRow
    THEN Response(HTTP_404_NOT_FOUND, "Instructor not found", db)
    ELSE IF dependents(db.courses, "instructor_id", instructor.id) # {}
    THEN Response(HTTP_500_INTERNAL_SERVER_ERROR, "IntegrityError", db)
    ELSE Response(HTTP_200_OK, "Instructor deleted successfully",
                  [db EXCEPT !.instructors = @ \ {instructor}])

\* The courses are returned as loaded: no count is attached.
get_instructor_courses(db, current_user, instructor_id) ==
    IF First(db.instructors, instructor_id) = NoRow
    THEN Response(HTTP_404_NOT_FOUND, "Instructor not found", db)
    ELSE Listing({CourseRead(course, NoCount) :
                     course \in {c \in db.courses :
                                    c.instructor_id = instructor_id}}, db)

-----------------------------------------------------------------------------
(* app/routes/courses.py *)

\* Mutant of not_course_owner: every instructor passes, not only the one of
\* the course.
not_course_owner_by_role(current_user, instructor) ==
    current_user.role \notin {ADMIN, INSTRUCTOR}

\* The principal is neither admin nor the instructor of the course
\* (update_course, line 122).
not_course_owner(current_user, instructor) ==
    /\ current_user.role # ADMIN
    /\ (instructor = NoRow \/ current_user.id # instructor.user_id)

create_course(db, current_user, course_data) ==
    IF current_user.role # ADMIN
    THEN Response(HTTP_403_FORBIDDEN, "Not authorized to create courses", db)
    ELSE IF by_key(db.courses, "course_code", course_data.course_code) # {}
    THEN Response(HTTP_400_BAD_REQUEST, "Course code already exists", db)
    ELSE IF First(db.instructors, course_data.instructor_id) = NoRow
    THEN Response(HTTP_404_NOT_FOUND, "Instructor not found", db)
    ELSE Response(HTTP_200_OK, "",
             [db EXCEPT !.courses = @ \cup
                 {[id |-> NextId(db.courses),
                   course_code |-> course_data.course_code,
                   instructor_id |-> course_data.instructor_id,
                   max_students |-> course_data.max_students]}])

\* The count query of lines 71-75 and 94-98 is the one of create_enrollment.
get_course(db, current_user, course_id) ==
    LET course == First(db.courses, course_id) IN
    IF course = NoRow
    THEN Response(HTTP_404_NOT_FOUND, "Course not found", db)
    ELSE Listing({CourseRead(course, enrolled_count(db, course.id))}, db)

\* skip and limit keep their defaults (0 and 100).
get_courses(db, current_user) ==
    Listing({CourseRead(course, enrolled_count(db, course.id)) :
                 course \in db.courses}, db)

update_course(db, current_user, course_id, course_update) ==
    LET course == First(db.courses, course_id) IN
    IF course = NoRow
    THEN Response(HTTP_404_NOT_FOUND, "Course not found", db)
    ELSE IF not_course_owner(current_user,
                             First(db.instructors, course.instructor_id))
    THEN Response(HTTP_403_FORBIDDEN, "Not authorized to update this course", db)
    ELSE Response(HTTP_200_OK, "",
             [db EXCEPT !.courses = (@ \ {course}) \cup
                 {ApplyUpdate(course, course_update)}])

\* Mutant of delete_course: a cascading delete, the enrollments of the course
\* go with it.
delete_course_cascade(db, current_user, course_id) ==
    LET course == First(db.courses, course_id) IN
    IF current_user.role # ADMIN
    THEN Response(HTTP_403_FORBIDDEN, "Not authorized to delete courses", db)
    ELSE IF course = NoRow
    THEN Response(HTTP_404_NOT_FOUND, "Course not found", db)
    ELSE Response(HTTP_200_OK, "Course deleted successfully",
                  [db EXCEPT !.courses = @ \ {course},
                             !.enrollments =
                                 @ \ dependents(@, "course_id", course.id)])

delete_course(db, current_user, course_id) ==
    LET course == First(db.courses, course_id) IN
    IF current_user.role # ADMIN
    THEN Response(HTTP_403_FORBIDDEN, "Not authorized to delete courses", db)
    ELSE IF course = NoRow
    THEN Response(HTTP_404_NOT_FOUND, "Course not found", db)
    ELSE IF dependents(db.enrollments, "course_id", course.id) # {}
    THEN Response(HTTP_500_INTERNAL_SERVER_ERROR, "IntegrityError", db)
    ELSE Response(HTTP_200_OK, "Course deleted successfully",
                  [db EXCEPT !.courses = @ \ {course}])

get_course_enrollments(db, current_user, course_id) ==
    LET course == First(db.courses, course_id) IN
    IF course = NoRow
    THEN Response(HTTP_404_NOT_FOUND, "Course not found", db)
    ELSE IF not_course_owner(current_user,
                             First(db.instructors, course.instructor_id))
    THEN Response(HTTP_403_FORBIDDEN,
                  "Not authorized to view course enrollments", db)
    ELSE Listing({e \in db.enrollments : e.course_id = course_id}, db)

-----------------------------------------------------------------------------
(* Request inputs *)

Grades == {"A"}                \* grade values a request may set
Capacities == {1, 2}           \* max_students values a request may set

\* The bodies of EnrollmentUpdate, and those that set at most the status (the
\* bodies the update requests of a run carry).
EnrollmentUpdates == Bodies2("status", EnrollmentStatusEnum, "grade", Grades)
StatusUpdates == Bodies1("status", EnrollmentStatusEnum)

-----------------------------------------------------------------------------
(* Populated stores, built by the handlers themselves from the empty one.   *)
(* Office: three registrations (an admin, an instructor, a student), the    *)
(* instructor's profile, created by the admin, the student's profile,       *)
(* created by the student, and one course of capacity cap.                  *)
(* Campus: Office, a second registered student and their profile, created   *)
(* by the admin.                                                            *)

Office(cap) ==
    LET d1 == register_user(EmptyDB, [email |-> 1, role |-> ADMIN]).db
        d2 == register_user(d1, [email |-> 2, role |-> INSTRUCTOR]).db
        d3 == register_user(d2, [email |-> 3, role |-> STUDENT]).db
        admin == First(d3.users, 1)
        d4 == create_instructor(d3, admin,
                  [user_id |-> 2, employee_id |-> 1, department |-> "cs"]).db
        d5 == create_student(d4, First(d3.users, 3),
                  [user_id |-> 3, student_id |-> 1]).db
    IN  create_course(d5, admin,
            [course_code |-> 1, instructor_id |-> 1, max_students |-> cap]).db

Campus(cap) ==
    LET d1 == register_user(Office(cap), [email |-> 4, role |-> STUDENT]).db
    IN  create_student(d1, First(d1.users, 1),
                       [user_id |-> 4, student_id |-> 2]).db

\* Faculty: Campus, a second registered instructor and their profile, and a
\* course of theirs, created by the admin.
Faculty(cap) ==
    LET d1 == register_user(Campus(cap), [email |-> 5, role |-> INSTRUCTOR]).db
        admin == First(d1.users, 1)
        d2 == create_instructor(d1, admin,
                  [user_id |-> 5, employee_id |-> 2, department |-> "math"]).db
    IN  create_course(d2, admin,
            [course_code |-> 2, instructor_id |-> 2, max_students |-> cap]).db

\* The value of last before any request is answered.
NoRequest == [op |-> "none", user |-> 0, args |-> NoFields, code |-> 0, detail |-> ""]

\* The store is db, no request has been answered, and the requests in flight
\* are rq.
StartFrom(db, rq) ==
    /\ users = db.users
    /\ students = db.students
    /\ instructors = db.instructors
    /\ courses = db.courses
    /\ enrollments = db.enrollments
    /\ last = NoRequest
    /\ reqs = rq

\* What is kept of an answered request: the operation, the response code and
\* detail and, when the request was carried out, the principal and arguments.
Answered(op, user_id, args, code, detail) ==
    IF code = HTTP_200_OK
    THEN [op |-> op, user |-> user_id, args |-> args, code |-> code,
          detail |-> detail]
    ELSE [op |-> op, user |-> 0, args |-> NoFields, code |-> code,
          detail |-> detail]

\* The request completes with response r: the store is the one the handler
\* left and the response is recorded.
Complete(op, current_user, args, r) ==
    /\ users' = r.db.users
    /\ students' = r.db.students
    /\ instructors' = r.db.instructors
    /\ courses' = r.db.courses
    /\ enrollments' = r.db.enrollments
    /\ last' = Answered(op, current_user.id, args, r.code, r.detail)

-----------------------------------------------------------------------------
(* Requests on /enrollments, each handled atomically *)

CreateEnrollment ==
    \E current_user \in get_current_active_user(DB),
       sid \in IdArgs(students), cid \in IdArgs(courses) :
        LET data == [student_id |-> sid, course_id |-> cid]
            r == create_enrollment(DB, current_user, data)
        IN  /\ r.code = HTTP_200_OK => NextId(enrollments) <= MaxEnrollments
            /\ Complete("create_enrollment", current_user, data, r)
            /\ UNCHANGED reqs

UpdateEnrollment ==
    \E current_user \in get_current_active_user(DB),
       eid \in IdArgs(enrollments), body \in StatusUpdates :
        /\ Complete("update_enrollment", current_user,
                    [enrollment_id |-> eid, body |-> body],
                    update_enrollment(DB, current_user, eid, body))
        /\ UNCHANGED reqs

DeleteEnrollment ==
    \E current_user \in get_current_active_user(DB), eid \in IdArgs(enrollments) :
        /\ Complete("delete_enrollment", current_user, [enrollment_id |-> eid],
                    delete_enrollment(DB, current_user, eid))
        /\ UNCHANGED reqs

GetEnrollment ==
    \E current_user \in get_current_active_user(DB), eid \in IdArgs(enrollments) :
        /\ Complete("get_enrollment", current_user, [enrollment_id |-> eid],
                    get_enrollment(DB, current_user, eid))
        /\ UNCHANGED reqs

\* One course with a single seat, two students, no enrollment yet.
Init == StartFrom(Campus(1), NoFields)

Next ==
    \/ CreateEnrollment
    \/ UpdateEnrollment
    \/ DeleteEnrollment
    \/ GetEnrollment

Spec == Init /\ [][Next]_vars

-----------------------------------------------------------------------------
(* Updates of stored enrollments: both students are enrolled in a course    *)
(* of two seats, and the update requests carry every body of                *)
(* EnrollmentUpdate, status and grade.                                      *)

\* An update_enrollment request whose body sets the grade.
GradeEnrollment ==
    \E current_user \in get_current_active_user(DB),
       eid \in IdArgs(enrollments),
       body \in {b \in EnrollmentUpdates : "grade" \in DOMAIN b} :
        /\ Complete("update_enrollment", current_user,
                    [enrollment_id |-> eid, body |-> body],
                    update_enrollment(DB, current_user, eid, body))
        /\ UNCHANGED reqs

\* Campus with two seats, each student enrolled by the admin.
Classroom ==
    LET admin == First(Campus(2).users, 1)
        d1 == create_enrollment(Campus(2), admin,
                  [student_id |-> 1, course_id |-> 1]).db
    IN  create_enrollment(d1, admin, [student_id |-> 2, course_id |-> 1]).db

InitUpdate == StartFrom(Classroom, NoFields)

NextUpdate ==
    \/ UpdateEnrollment
    \/ GradeEnrollment
    \/ GetEnrollment

SpecUpdate == InitUpdate /\ [][NextUpdate]_vars

-----------------------------------------------------------------------------
(* Requests on /auth/register, /students, /instructors and /courses.        *)
(* main.py mounts one router per table (lines 49-53); a run drives the      *)
(* requests of the routers in reqs.routers; a run of SpecDir drives those   *)
(* of one router against the Office store.  A creation request completes    *)
(* in one step or, in a run with reqs.split, in two: its checks with        *)
(* session.add(row), and later its commit, other requests running in        *)
(* between.  reqs.row is the row waiting for its commit.                    *)

Routers == {"auth", "students", "instructors", "courses"}

\* The table a router creates rows in.
Table(router) == IF router = "auth" THEN "users" ELSE router

\* The run drives the requests of the router.
Serves(router) == router \in reqs.routers

\* The requests in flight of a run that drives the routers: none.
Driving(routers, split) ==
    [routers |-> routers, split |-> split, row |-> NoRow]

\* The unique indexes of app/models.py (Field(unique=True)): the table's
\* natural-key column.
UniqueKey == [users |-> "email", students |-> "student_id",
              instructors |-> "employee_id", courses |-> "course_code"]

StudentUpdates == Bodies1("address", {"home"})
InstructorUpdates == Bodies1("department", {"math"})
CourseUpdates == Bodies1("max_students", Capacities)

\* Mutant of IntegrityError: a table without its unique index.
IntegrityError_never(db, t, row) == FALSE

\* The unique index of table t refuses the row: its key is in use.
IntegrityError(db, t, row) ==
    \E x \in db[t] : x[UniqueKey[t]] = row[UniqueKey[t]]

\* A creation handler answers r.  Either the request completes with no other
\* request in between, or, having passed every check, it has added its row to
\* the session and its commit is still to come.
Created(op, current_user, args, r) ==
    \/ /\ Complete(op, current_user, args, r)
       /\ UNCHANGED reqs
    \/ /\ r.code = HTTP_200_OK
       /\ reqs.split
       /\ reqs.row = NoRow
       /\ LET t == CHOOSE t \in DOMAIN MaxId : r.db[t] # DB[t]
          IN  reqs' = [reqs EXCEPT !.row = CHOOSE row \in r.db[t] : row \notin DB[t]]
       /\ UNCHANGED <<tables, last>>

\* session.commit() of the waiting request: the INSERT runs against the rows
\* committed by now.  The unique index refuses a row whose key is in use
\* (IntegrityError, which no handler catches: a 500 response and nothing
\* stored); otherwise the row is stored under the next id.
Commit ==
    /\ reqs.row # NoRow
    /\ LET t == CHOOSE t \in DOMAIN UniqueKey : UniqueKey[t] \in DOMAIN reqs.row
           row == [reqs.row EXCEPT !.id = NextId(DB[t])]
           r == IF IntegrityError(DB, t, row)
                THEN Response(HTTP_500_INTERNAL_SERVER_ERROR, "IntegrityError", DB)
                ELSE Response(HTTP_200_OK, "", [DB EXCEPT ![t] = @ \cup {row}])
       IN  /\ r.code = HTTP_200_OK => row.id <= MaxId[t]
           /\ Complete("commit", NoRow, [row |-> row], r)
    /\ reqs' = [reqs EXCEPT !.row = NoRow]

RegisterUser ==
    /\ Serves("auth")
    /\ \E email \in KeyArgs(users, "email"), role \in UserRole :
        LET data == [email |-> email, role |-> role]
            r == register_user(DB, data)
        IN  /\ r.code = HTTP_200_OK => NextId(users) <= MaxUsers
            /\ Created("register_user", NoRow, data, r)

CreateStudent ==
    /\ Serves("students")
    /\ \E current_user \in get_current_active_user(DB),
          uid \in IdArgs(users), key \in KeyArgs(students, "student_id") :
        LET data == [user_id |-> uid, student_id |-> key]
            r == create_student(DB, current_user, data)
        IN  /\ r.code = HTTP_200_OK => NextId(students) <= MaxStudents
            /\ Created("create_student", current_user, data, r)

GetStudent ==
    /\ Serves("students")
    /\ \E current_user \in get_current_active_user(DB), sid \in IdArgs(students) :
        Complete("get_student", current_user, [student_id |-> sid],
                 get_student(DB, current_user, sid))
    /\ UNCHANGED reqs

UpdateStudent ==
    /\ Serves("students")
    /\ \E current_user \in get_current_active_user(DB),
          sid \in IdArgs(students), body \in StudentUpdates :
        Complete("update_student", current_user,
                 [student_id |-> sid, body |-> body],
                 update_student(DB, current_user, sid, body))
    /\ UNCHANGED reqs

DeleteStudent ==
    /\ Serves("students")
    /\ \E current_user \in get_current_active_user(DB), sid \in IdArgs(students) :
        Complete("delete_student", current_user, [student_id |-> sid],
                 delete_student(DB, current_user, sid))
    /\ UNCHANGED reqs

CreateInstructor ==
    /\ Serves("instructors")
    /\ \E current_user \in get_current_active_user(DB),
          uid \in IdArgs(users), key \in KeyArgs(instructors, "employee_id") :
        LET data == [user_id |-> uid, employee_id |-> key, department |-> "cs"]
            r == create_instructor(DB, current_user, data)
        IN  /\ r.code = HTTP_200_OK => NextId(instructors) <= MaxInstructors
            /\ Created("create_instructor", current_user, data, r)

GetInstructor ==
    /\ Serves("instructors")
    /\ \E current_user \in get_current_active_user(DB), iid \in IdArgs(instructors) :
        Complete("get_instructor", current_user, [instructor_id |-> iid],
                 get_instructor(DB, current_user, iid))
    /\ UNCHANGED reqs

UpdateInstructor ==
    /\ Serves("instructors")
    /\ \E current_user \in get_current_active_user(DB),
          iid \in IdArgs(instructors), body \in InstructorUpdates :
        Complete("update_instructor", current_user,
                 [instructor_id |-> iid, body |-> body],
                 update_instructor(DB, current_user, iid, body))
    /\ UNCHANGED reqs

DeleteInstructor ==
    /\ Serves("instructors")
    /\ \E current_user \in get_current_active_user(DB), iid \in IdArgs(instructors) :
        Complete("delete_instructor", current_user, [instructor_id |-> iid],
                 delete_instructor(DB, current_user, iid))
    /\ UNCHANGED reqs

CreateCourse ==
    /\ Serves("courses")
    /\ \E current_user \in get_current_active_user(DB),
          code \in KeyArgs(courses, "course_code"),
          iid \in IdArgs(instructors), cap \in Capacities :
        LET data == [course_code |-> code, instructor_id |-> iid,
                     max_students |-> cap]
            r == create_course(DB, current_user, data)
        IN  /\ r.code = HTTP_200_OK => NextId(courses) <= MaxCourses
            /\ Created("create_course", current_user, data, r)

GetCourse ==
    /\ Serves("courses")
    /\ \E current_user \in get_current_active_user(DB), cid \in IdArgs(courses) :
        Complete("get_course", current_user, [course_id |-> cid],
                 get_course(DB, current_user, cid))
    /\ UNCHANGED reqs

UpdateCourse ==
    /\ Serves("courses")
    /\ \E current_user \in get_current_active_user(DB),
          cid \in IdArgs(courses), body \in CourseUpdates :
        Complete("update_course", current_user,
                 [course_id |-> cid, body |-> body],
                 update_course(DB, current_user, cid, body))
    /\ UNCHANGED reqs

DeleteCourse ==
    /\ Serves("courses")
    /\ \E current_user \in get_current_active_user(DB), cid \in IdArgs(courses) :
        Complete("delete_course", current_user, [course_id |-> cid],
                 delete_course(DB, current_user, cid))
    /\ UNCHANGED reqs

\* The Office store, one of the four routers, no row waiting for its commit.
InitDir ==
    \E router \in Routers : StartFrom(Office(1), Driving({router}, TRUE))

NextDir ==
    \/ RegisterUser
    \/ CreateStudent
    \/ GetStudent
    \/ UpdateStudent
    \/ DeleteStudent
    \/ CreateInstructor
    \/ GetInstructor
    \/ UpdateInstructor
    \/ DeleteInstructor
    \/ CreateCourse
    \/ GetCourse
    \/ UpdateCourse
    \/ DeleteCourse
    \/ Commit

SpecDir == InitDir /\ [][NextDir]_vars

-----------------------------------------------------------------------------
(* Deletions of students and creations and deletions of courses and        *)
(* enrollments together, each request handled atomically, from the Campus   *)
(* store (whose students were created by create_student).                   *)

InitRef == StartFrom(Campus(1), Driving({"students", "courses"}, FALSE))

NextRef ==
    \/ DeleteStudent
    \/ CreateCourse
    \/ DeleteCourse
    \/ CreateEnrollment
    \/ DeleteEnrollment

SpecRef == InitRef /\ [][NextRef]_vars

-----------------------------------------------------------------------------
(* Two instructors with a course each and two students: the requests that   *)
(* read enrollments, with those that create them and those that update or   *)
(* delete a course, each handled atomically.                                *)

\* An absent optional query parameter.
Absent == 0

GetEnrollments ==
    \E current_user \in get_current_active_user(DB),
       sid \in {Absent} \cup Ids(students), cid \in {Absent} \cup Ids(courses) :
        /\ Complete("get_enrollments", current_user,
                    [student_id |-> sid, course_id |-> cid],
                    get_enrollments(DB, current_user, sid, cid))
        /\ UNCHANGED reqs

GetStudentEnrollments ==
    \E current_user \in get_current_active_user(DB), sid \in IdArgs(students) :
        /\ Complete("get_student_enrollments", current_user, [student_id |-> sid],
                    get_student_enrollments(DB, current_user, sid))
        /\ UNCHANGED reqs

GetCourseEnrollments ==
    \E current_user \in get_current_active_user(DB), cid \in IdArgs(courses) :
        /\ Complete("get_course_enrollments", current_user, [course_id |-> cid],
                    get_course_enrollments(DB, current_user, cid))
        /\ UNCHANGED reqs

InitFaculty == StartFrom(Faculty(1), Driving({"courses"}, FALSE))

NextFaculty ==
    \/ CreateEnrollment
    \/ GetEnrollment
    \/ GetEnrollments
    \/ GetStudentEnrollments
    \/ GetCourseEnrollments
    \/ UpdateCourse
    \/ DeleteCourse

SpecFaculty == InitFaculty /\ [][NextFaculty]_vars

-----------------------------------------------------------------------------
(* The courses of two instructors: the requests that read, update and       *)
(* delete a course, an update setting max_students or instructor_id, and    *)
(* the requests that delete an instructor.  The store is the SQLite         *)
(* database of DATABASE_URL's default (main.py, line 16), which does not    *)
(* check a foreign key on INSERT or UPDATE.                                 *)

\* An update_course request whose body sets instructor_id.
ReassignCourse ==
    /\ Serves("courses")
    /\ \E current_user \in get_current_active_user(DB),
          cid \in IdArgs(courses), iid \in IdArgs(instructors) :
        LET body == [instructor_id |-> iid]
        IN  Complete("update_course", current_user,
                     [course_id |-> cid, body |-> body],
                     update_course(DB, current_user, cid, body))
    /\ UNCHANGED reqs

InitCourse == StartFrom(Faculty(1), Driving({"courses", "instructors"}, FALSE))

NextCourse ==
    \/ DeleteInstructor
    \/ GetCourse
    \/ UpdateCourse
    \/ ReassignCourse
    \/ DeleteCourse

SpecCourse == InitCourse /\ [][NextCourse]_vars

-----------------------------------------------------------------------------
(* The profiles of two students and two instructors: the requests that      *)
(* read and update a Student or an Instructor.                              *)

InitProfile == StartFrom(Faculty(1), Driving({"students", "instructors"}, FALSE))

NextProfile ==
    \/ GetStudent
    \/ UpdateStudent
    \/ GetInstructor
    \/ UpdateInstructor

SpecProfile == InitProfile /\ [][NextProfile]_vars

-----------------------------------------------------------------------------
(* The course read paths over the Classroom store, between updates of the   *)
(* status of its two enrollments.                                           *)

GetCourses ==
    /\ Serves("courses")
    /\ \E current_user \in get_current_active_user(DB) :
          Complete("get_courses", current_user, NoFields,
                   get_courses(DB, current_user))
    /\ UNCHANGED reqs

GetInstructorCourses ==
    /\ Serves("instructors")
    /\ \E current_user \in get_current_active_user(DB),
          iid \in IdArgs(instructors) :
          Complete("get_instructor_courses", current_user,
                   [instructor_id |-> iid],
                   get_instructor_courses(DB, current_user, iid))
    /\ UNCHANGED reqs

InitCount == StartFrom(Classroom, Driving({"courses", "instructors"}, FALSE))

NextCount ==
    \/ UpdateEnrollment
    \/ GetCourse
    \/ GetCourses
    \/ GetInstructorCourses

SpecCount == InitCount /\ [][NextCount]_vars

-----------------------------------------------------------------------------
(* Creations of student and instructor profiles and requests on enrollments *)
(* together, each request handled atomically, from the Lobby store: Office, *)
(* two registered users, a student and an instructor, without profiles, and *)
(* the student of Office enrolled in its course by the admin.               *)

Lobby ==
    LET d1 == register_user(Office(1), [email |-> 4, role |-> STUDENT]).db
        d2 == register_user(d1, [email |-> 5, role |-> INSTRUCTOR]).db
    IN  create_enrollment(d2, First(d2.users, 1),
                          [student_id |-> 1, course_id |-> 1]).db

InitOwner == StartFrom(Lobby, Driving({"students", "instructors"}, FALSE))

NextOwner ==
    \/ CreateStudent
    \/ CreateInstructor
    \/ UpdateEnrollment

SpecOwner == InitOwner /\ [][NextOwner]_vars

-----------------------------------------------------------------------------
(* Concurrent create_enrollment requests.  Each request is its own unit of  *)
(* work on its own session; every statement it runs reads the rows          *)
(* committed so far, and nothing holds the store between its statements.    *)
(* The handlers are coroutines that never await, so requests served by one  *)
(* event loop do not interleave; the steps below interleave between server  *)
(* processes that share the database of DATABASE_URL (main.py, line 16).    *)
(* reqs[i].pc is the position of request i in create_enrollment:            *)
(*   "idle"             not yet received                                    *)
(*   "check_duplicate"  student, course and principal accepted (l. 29-59)   *)
(*   "check_capacity"   no enrolled row of the pair was found (l. 62-73)    *)
(*   "insert"           the count was below max_students (l. 76-86)         *)
(*   "done"             answered                                            *)

Idle == [pc |-> "idle", user |-> 0, data |-> NoFields, course |-> NoRow, code |-> 0]

Answer(i, code, detail) ==
    /\ reqs' = [reqs EXCEPT ![i].pc = "done", ![i].code = code]
    /\ last' = Answered("create_enrollment", reqs[i].user, reqs[i].data,
                        code, detail)

\* Lines 29-59: the request is received; student, course and instructor are
\* loaded and the principal is authorized.
Receive(i) ==
    /\ reqs[i].pc = "idle"
    /\ \E current_user \in get_current_active_user(DB),
          sid \in IdArgs(students), cid \in IdArgs(courses) :
           LET data == [student_id |-> sid, course_id |-> cid]
               student == First(students, sid)
               course == First(courses, cid)
               instructor == First(instructors, course.instructor_id)
               req == [reqs[i] EXCEPT !.user = current_user.id, !.data = data]
               refuse(detail, code) ==
                   /\ reqs' = [reqs EXCEPT ![i] = [req EXCEPT !.pc = "done",
                                                              !.code = code]]
                   /\ last' = Answered("create_enrollment", current_user.id,
                                       data, code, detail)
           IN  IF student = NoRow
               THEN refuse("Student not found", HTTP_404_NOT_FOUND)
               ELSE IF course = NoRow
               THEN refuse("Course not found", HTTP_404_NOT_FOUND)
               ELSE IF create_enrollment_denied(current_user, student, instructor)
               THEN refuse("Not authorized to create enrollment", HTTP_403_FORBIDDEN)
               ELSE /\ reqs' = [reqs EXCEPT ![i] =
                                  [req EXCEPT !.pc = "check_duplicate",
                                              !.course = course]]
                    /\ UNCHANGED last
    /\ UNCHANGED tables

\* Lines 62-73: the active-duplicate query and its test.
CheckDuplicate(i) ==
    /\ reqs[i].pc = "check_duplicate"
    /\ IF existing_enrollment(DB, reqs[i].data.student_id,
                              reqs[i].data.course_id) # {}
       THEN Answer(i, HTTP_400_BAD_REQUEST,
                   "Student is already enrolled in this course")
       ELSE reqs' = [reqs EXCEPT ![i].pc = "check_capacity"] /\ UNCHANGED last
    /\ UNCHANGED tables

\* Lines 76-86: the count query and the capacity test.
CheckCapacity(i) ==
    /\ reqs[i].pc = "check_capacity"
    /\ IF course_full(enrolled_count(DB, reqs[i].data.course_id), reqs[i].course)
       THEN Answer(i, HTTP_400_BAD_REQUEST, "Course is full")
       ELSE reqs' = [reqs EXCEPT ![i].pc = "insert"] /\ UNCHANGED last
    /\ UNCHANGED tables

\* Lines 88-93: the row is inserted and committed.
Insert(i) ==
    /\ reqs[i].pc = "insert"
    /\ enrollments' = enrollments \cup {new_enrollment(DB, reqs[i].data)}
    /\ Answer(i, HTTP_200_OK, "")
    /\ UNCHANGED <<users, students, instructors, courses>>

\* The same one-seat course and two students; NumRequests requests may arrive.
InitConc == StartFrom(Campus(1), [i \in 1..NumRequests |-> Idle])

NextConc ==
    \E i \in 1..NumRequests :
        \/ Receive(i)
        \/ CheckDuplicate(i)
        \/ CheckCapacity(i)
        \/ Insert(i)

SpecConc == InitConc /\ [][NextConc]_vars

-----------------------------------------------------------------------------
(* Vocabulary of the properties, over the current store *)

IsAdmin(u) == u.role = ADMIN

\* u is the User of the Student profile sid.
OwnsStudent(u, sid) == \E s \in students : s.id = sid /\ s.user_id = u.id

\* u is the User of the Instructor profile that course cid references.
OwnsCourse(u, cid) ==
    \E c \in courses, i \in instructors :
        c.id = cid /\ i.id = c.instructor_id /\ i.user_id = u.id

\* The rows of status enrolled of a (student, course) pair, and of a course.
ActiveRows(rows, sid, cid) ==
    {e \in rows : e.student_id = sid /\ e.course_id = cid /\ e.status = "enrolled"}
ActiveOfCourse(rows, cid) ==
    {e \in rows : e.course_id = cid /\ e.status = "enrolled"}

MayCreateEnrollment(u, sid, cid) ==
    IsAdmin(u) \/ OwnsStudent(u, sid) \/ OwnsCourse(u, cid)

EnrollmentData(sid, cid) == [student_id |-> sid, course_id |-> cid]

-----------------------------------------------------------------------------
(* Properties of the /enrollments requests, each handled atomically (Spec) *)

\* C2: for every (student_id, course_id) pair at most one enrollment row has
\* status enrolled.
C2_OneActivePerPair ==
    \A e1, e2 \in enrollments :
        (/\ e1.student_id = e2.student_id
         /\ e1.course_id = e2.course_id
         /\ e1.status = "enrolled"
         /\ e2.status = "enrolled") => e1 = e2

\* C3: a create_enrollment request of an authorized principal for an existing
\* student and course with no enrolled row of the pair inserts one enrolled
\* row exactly when the course's enrolled count is below max_students (and
\* the count after it is then at most max_students); otherwise it is answered
\* 400 "Course is full" and inserts nothing.
C3_CapacityCheck ==
    \A u \in users, s \in students, c \in courses :
        LET r == create_enrollment(DB, u, EnrollmentData(s.id, c.id))
            count == Cardinality(ActiveOfCourse(enrollments, c.id))
        IN  (MayCreateEnrollment(u, s.id, c.id)
                /\ ActiveRows(enrollments, s.id, c.id) = {})
            => IF count < c.max_students
               THEN /\ r.code = 200
                    /\ \E e \in r.db.enrollments \ enrollments :
                          /\ r.db.enrollments = enrollments \cup {e}
                          /\ e.student_id = s.id /\ e.course_id = c.id
                          /\ e.status = "enrolled"
                    /\ Cardinality(ActiveOfCourse(r.db.enrollments, c.id))
                          <= c.max_students
               ELSE /\ r.code = 400
                    /\ r.detail = "Course is full"
                    /\ r.db = DB

\* C3 witness: a request was answered "Course is full" for a student with no
\* enrolled row in a course whose seats are all taken.
C3_Witness ==
    /\ last.op = "create_enrollment"
    /\ last.code = 400
    /\ last.detail = "Course is full"
    /\ \E s \in students, c \in courses :
          /\ ActiveRows(enrollments, s.id, c.id) = {}
          /\ Cardinality(ActiveOfCourse(enrollments, c.id)) = c.max_students

\* C4: while a course's seats are all taken, a student with no enrolled row is
\* refused ("Course is full"); when a student-owner sets their own enrolled
\* row to dropped the request succeeds and the enrolled count is one lower;
\* and if that leaves a seat free, the next create_enrollment for the course
\* (authorized principal, student with no enrolled row) succeeds and takes it.
C4_SeatRelease ==
    \A e \in enrollments, owner \in users, c \in courses :
        (/\ e.status = "enrolled"
         /\ e.course_id = c.id
         /\ ~IsAdmin(owner)
         /\ OwnsStudent(owner, e.student_id))
        => LET count == Cardinality(ActiveOfCourse(enrollments, c.id))
               drop == update_enrollment(DB, owner, e.id, [status |-> "dropped"])
           IN  /\ drop.code = 200
               /\ Cardinality(ActiveOfCourse(drop.db.enrollments, c.id)) = count - 1
               /\ \A u \in users, s \in students :
                     (MayCreateEnrollment(u, s.id, c.id)
                         /\ ActiveRows(drop.db.enrollments, s.id, c.id) = {})
                     => LET data == EnrollmentData(s.id, c.id)
                            before == create_enrollment(DB, u, data)
                            after == create_enrollment(drop.db, u, data)
                        IN  /\ (count >= c.max_students
                                  /\ ActiveRows(enrollments, s.id, c.id) = {})
                               => (before.code = 400
                                     /\ before.detail = "Course is full")
                            /\ count - 1 < c.max_students
                               => /\ after.code = 200
                                  /\ Cardinality(ActiveOfCourse(
                                        after.db.enrollments, c.id)) = count

\* C4 witness: the scenario's last state. Student 1's row is dropped, and
\* student 2 has just been enrolled in the one-seat course.
C4_Witness ==
    /\ last.op = "create_enrollment"
    /\ last.code = 200
    /\ \E a, b \in enrollments, c \in courses :
          /\ c.max_students = 1
          /\ a.course_id = c.id /\ b.course_id = c.id
          /\ a.status = "dropped"
          /\ b.status = "enrolled"
          /\ a.id < b.id
          /\ a.student_id # b.student_id
          /\ b.student_id = last.args.student_id
          /\ Cardinality(ActiveOfCourse(enrollments, c.id)) = 1

\* C5: for an authorized principal and an existing student and course,
\* create_enrollment answers 400 "Student is already enrolled in this course"
\* exactly when the pair has a row of status enrolled; rows of the pair with
\* another status never cause that answer.
C5_ActiveDuplicate ==
    \A u \in users, s \in students, c \in courses :
        MayCreateEnrollment(u, s.id, c.id)
        => LET r == create_enrollment(DB, u, EnrollmentData(s.id, c.id))
               rejected == /\ r.code = 400
                           /\ r.detail = "Student is already enrolled in this course"
           IN  /\ rejected <=> ActiveRows(enrollments, s.id, c.id) # {}
               /\ rejected => r.db = DB

\* C5 witness: a student with a dropped row in a course has just been enrolled
\* in it again.
C5_Witness ==
    /\ last.op = "create_enrollment"
    /\ last.code = 200
    /\ \E old, new \in enrollments :
          /\ old.student_id = last.args.student_id
          /\ old.course_id = last.args.course_id
          /\ old.status = "dropped"
          /\ new.student_id = old.student_id
          /\ new.course_id = old.course_id
          /\ new.status = "enrolled"
          /\ old.id < new.id

\* C10: when a non-admin principal owning the enrollment's Student profile
\* calls update_enrollment, a target status of completed, failed or enrolled
\* is answered 403 and leaves the store unchanged; a target status of
\* dropped succeeds and the row's status is dropped afterwards.
C10_StudentDropOnly ==
    \A e \in enrollments, u \in users, body \in EnrollmentUpdates :
        (~IsAdmin(u) /\ OwnsStudent(u, e.student_id) /\ "status" \in DOMAIN body)
        => LET r == update_enrollment(DB, u, e.id, body)
           IN  IF body.status \in {"completed", "failed", "enrolled"}
               THEN r.code = 403 /\ r.db = DB
               ELSE /\ body.status = "dropped"
                    /\ r.code = 200
                    /\ \E e2 \in r.db.enrollments :
                          e2.id = e.id /\ e2.status = "dropped"
                    /\ Ids(r.db.enrollments) = Ids(enrollments)

\* C10 witness: a student has just been refused to set their own enrolled row
\* to another status than dropped.
C10_Witness ==
    /\ last.op = "update_enrollment"
    /\ last.code = 403
    /\ last.detail = "Students can only drop courses"
    /\ \E e \in enrollments, u \in users :
          /\ e.status = "enrolled"
          /\ ~IsAdmin(u)
          /\ OwnsStudent(u, e.student_id)

\* C11: an update_enrollment request by a non-admin principal owning the
\* enrollment's Student profile changes nothing on the enrollment except
\* setting its status to dropped, and never changes its grade.
C11_StudentNeverGrades ==
    \A e \in enrollments, u \in users, body \in EnrollmentUpdates :
        (~IsAdmin(u) /\ OwnsStudent(u, e.student_id))
        => LET r == update_enrollment(DB, u, e.id, body)
           IN  /\ r.db.enrollments \subseteq
                      enrollments \cup {[e EXCEPT !.status = "dropped"]}
               /\ \A e2 \in r.db.enrollments :
                      e2.id = e.id => e2.grade = e.grade

-----------------------------------------------------------------------------
(* Properties of concurrent create_enrollment requests (SpecConc) *)

\* C1: with create_enrollment requests running concurrently, the number of
\* enrolled rows of a course never exceeds the course's max_students.
C1_CapacityUnderConcurrency ==
    \A c \in courses :
        Cardinality(ActiveOfCourse(enrollments, c.id)) <= c.max_students

-----------------------------------------------------------------------------
(* Properties of the requests on users, students, instructors and courses   *)
(* (SpecDir)                                                                *)

\* The ids a request may name that no row of the table has.
Missing(table) == IdArgs(table) \ Ids(table)

Departments == {"cs", "math"}

\* C6 (as amended): a creation request whose email, student_id, employee_id
\* or course_code is stored when the handler runs never changes the store,
\* whatever its other field values; it is answered with the conflict error
\* (400) when the operation authorizes the principal for that request
\* (register_user: always; create_student: an admin or the user named by the
\* request's user_id; create_instructor, create_course: an admin), and with
\* 403 otherwise.
C6_DuplicateKeyRejected ==
    /\ \A x \in users, role \in UserRole :
          LET r == register_user(DB, [email |-> x.email, role |-> role])
          IN  r.code = 400 /\ r.detail = "Email already registered" /\ r.db = DB
    /\ \A u \in users, x \in students, uid \in IdArgs(users) :
          LET r == create_student(DB, u,
                       [user_id |-> uid, student_id |-> x.student_id])
          IN  /\ r.db = DB
              /\ IF IsAdmin(u) \/ u.id = uid
                 THEN r.code = 400 /\ r.detail = "Student ID already exists"
                 ELSE r.code = 403
    /\ \A u \in users, x \in instructors, uid \in IdArgs(users),
          department \in Departments :
          LET r == create_instructor(DB, u,
                       [user_id |-> uid, employee_id |-> x.employee_id,
                        department |-> department])
          IN  /\ r.db = DB
              /\ IF IsAdmin(u)
                 THEN r.code = 400 /\ r.detail = "Employee ID already exists"
                 ELSE r.code = 403
    /\ \A u \in users, x \in courses, iid \in IdArgs(instructors),
          cap \in Capacities :
          LET r == create_course(DB, u,
                       [course_code |-> x.course_code, instructor_id |-> iid,
                        max_students |-> cap])
          IN  /\ r.db = DB
              /\ IF IsAdmin(u)
                 THEN r.code = 400 /\ r.detail = "Course code already exists"
                 ELSE r.code = 403

\* C6 witness: with two students stored, a create_student request carrying a
\* stored student_id has just been answered with the conflict error.
C6_Witness ==
    /\ last.op = "create_student"
    /\ last.code = 400
    /\ last.detail = "Student ID already exists"
    /\ Cardinality(students) = 2

\* C6 as stated: a creation request whose natural key is stored is always
\* answered 400 and leaves the store unchanged, whatever its other field
\* values (and whoever sends it).
C6_AlwaysConflict ==
    /\ \A x \in users, role \in UserRole :
          LET r == register_user(DB, [email |-> x.email, role |-> role])
          IN  r.code = 400 /\ r.db = DB
    /\ \A u \in users, x \in students, uid \in IdArgs(users) :
          LET r == create_student(DB, u,
                       [user_id |-> uid, student_id |-> x.student_id])
          IN  r.code = 400 /\ r.db = DB
    /\ \A u \in users, x \in instructors, uid \in IdArgs(users),
          department \in Departments :
          LET r == create_instructor(DB, u,
                       [user_id |-> uid, employee_id |-> x.employee_id,
                        department |-> department])
          IN  r.code = 400 /\ r.db = DB
    /\ \A u \in users, x \in courses, iid \in IdArgs(instructors),
          cap \in Capacities :
          LET r == create_course(DB, u,
                       [course_code |-> x.course_code, instructor_id |-> iid,
                        max_students |-> cap])
          IN  r.code = 400 /\ r.db = DB

\* C7: in every reachable state no two User rows share an email, no two
\* Student rows a student_id, no two Instructor rows an employee_id and no
\* two Course rows a course_code, whatever creations (in one step, or with
\* other requests between checks and commit), updates and deletions came
\* before.
C7_UniqueKeys ==
    /\ \A a, b \in users : a.email = b.email => a = b
    /\ \A a, b \in students : a.student_id = b.student_id => a = b
    /\ \A a, b \in instructors : a.employee_id = b.employee_id => a = b
    /\ \A a, b \in courses : a.course_code = b.course_code => a = b

\* C7 witness: a creation passed its duplicate check, another request stored
\* the same key before its commit, and the commit has just been refused; the
\* table holds two rows.
C7_Witness ==
    /\ last.op = "commit"
    /\ last.code = 500
    /\ reqs.row = NoRow
    /\ \E router \in reqs.routers : Cardinality(DB[Table(router)]) >= 2

\* C8: every get, update and delete of a course, student, instructor or
\* enrollment that names an id no row has is answered 404, whoever sends it.
C8_NotFoundBeforeForbidden ==
    \A u \in users :
        /\ \A id \in Missing(courses), body \in CourseUpdates :
              /\ get_course(DB, u, id).code = 404
              /\ update_course(DB, u, id, body).code = 404
              /\ delete_course(DB, u, id).code = 404
        /\ \A id \in Missing(students), body \in StudentUpdates :
              /\ get_student(DB, u, id).code = 404
              /\ update_student(DB, u, id, body).code = 404
              /\ delete_student(DB, u, id).code = 404
        /\ \A id \in Missing(instructors), body \in InstructorUpdates :
              /\ get_instructor(DB, u, id).code = 404
              /\ update_instructor(DB, u, id, body).code = 404
              /\ delete_instructor(DB, u, id).code = 404
        /\ \A id \in Missing(enrollments), body \in EnrollmentUpdates :
              /\ get_enrollment(DB, u, id).code = 404
              /\ update_enrollment(DB, u, id, body).code = 404
              /\ delete_enrollment(DB, u, id).code = 404

\* C9: a creation request that references a User, Instructor, Student or
\* Course no row has is answered 404, even from an unauthorized principal or
\* with a stored natural key; and one whose references all exist, from a
\* principal the operation does not authorize, is answered 403.
C9_CreationCheckOrder ==
    \A u \in users :
        /\ \A uid \in IdArgs(users), key \in KeyArgs(students, "student_id") :
              LET r == create_student(DB, u, [user_id |-> uid, student_id |-> key])
              IN  /\ uid \in Missing(users) => r.code = 404
                  /\ (uid \in Ids(users) /\ ~IsAdmin(u) /\ u.id # uid)
                        => r.code = 403
        /\ \A uid \in IdArgs(users), key \in KeyArgs(instructors, "employee_id") :
              LET r == create_instructor(DB, u,
                           [user_id |-> uid, employee_id |-> key,
                            department |-> "cs"])
              IN  /\ uid \in Missing(users) => r.code = 404
                  /\ (uid \in Ids(users) /\ ~IsAdmin(u)) => r.code = 403
        /\ \A iid \in IdArgs(instructors), key \in KeyArgs(courses, "course_code"),
              cap \in Capacities :
              LET r == create_course(DB, u,
                           [course_code |-> key, instructor_id |-> iid,
                            max_students |-> cap])
              IN  /\ iid \in Missing(instructors) => r.code = 404
                  /\ (iid \in Ids(instructors) /\ ~IsAdmin(u)) => r.code = 403
        /\ \A sid \in IdArgs(students), cid \in IdArgs(courses) :
              LET r == create_enrollment(DB, u, EnrollmentData(sid, cid))
              IN  /\ (sid \in Missing(students) \/ cid \in Missing(courses))
                        => r.code = 404
                  /\ (/\ sid \in Ids(students)
                      /\ cid \in Ids(courses)
                      /\ ~MayCreateEnrollment(u, sid, cid)) => r.code = 403

-----------------------------------------------------------------------------
(* Properties of partial updates *)

\* new is old with exactly the fields of body set to the values of body.
Patched(old, new, body) ==
    /\ DOMAIN new = DOMAIN old
    /\ \A f \in DOMAIN old :
          new[f] = IF f \in DOMAIN body THEN body[f] ELSE old[f]

\* Response r to an update of row old of table t with body: if the update
\* was carried out, the row is patched and nothing else differs.
OnlyPatched(t, old, body, r) ==
    r.code = 200
    => \E new \in r.db[t] :
          /\ Patched(old, new, body)
          /\ r.db = [DB EXCEPT ![t] = (@ \ {old}) \cup {new}]

\* C13: a successful partial update (update_enrollment, update_course,
\* update_student, update_instructor) changes exactly the fields the request
\* provides and leaves every other field of the row, and every other row,
\* unchanged; an update_enrollment with only grade set leaves status,
\* student_id and course_id unchanged.
C13_PartialUpdateFrame ==
    \A u \in users :
        /\ \A e \in enrollments, body \in EnrollmentUpdates :
              LET r == update_enrollment(DB, u, e.id, body)
              IN  /\ OnlyPatched("enrollments", e, body, r)
                  /\ (r.code = 200 /\ DOMAIN body = {"grade"})
                        => \E e2 \in r.db.enrollments :
                              /\ e2.id = e.id
                              /\ e2.status = e.status
                              /\ e2.student_id = e.student_id
                              /\ e2.course_id = e.course_id
        /\ \A c \in courses, body \in CourseUpdates :
              OnlyPatched("courses", c, body, update_course(DB, u, c.id, body))
        /\ \A s \in students, body \in StudentUpdates :
              OnlyPatched("students", s, body, update_student(DB, u, s.id, body))
        /\ \A i \in instructors, body \in InstructorUpdates :
              OnlyPatched("instructors", i, body,
                          update_instructor(DB, u, i.id, body))

\* C13 witness: a request that set only the grade of a row whose status had
\* been changed before has been carried out; the row has the grade and still
\* that status, the other row is as it was created.
C13_Witness ==
    /\ last.op = "update_enrollment"
    /\ last.code = 200
    /\ DOMAIN last.args.body = {"grade"}
    /\ \E e \in enrollments, other \in enrollments :
          /\ e.id = last.args.enrollment_id
          /\ e.grade = last.args.body.grade
          /\ e.status = "completed"
          /\ other.id # e.id
          /\ other.status = "enrolled"
          /\ other.grade = "None"

-----------------------------------------------------------------------------
(* Properties of the references between tables (SpecRef) *)

\* C15: every Enrollment row's student_id is the id of a stored Student and
\* its course_id is the id of a stored Course, whatever create and delete
\* requests on students, courses and enrollments were answered.
C15_EnrollmentReferences ==
    \A e \in enrollments :
        /\ e.student_id \in Ids(students)
        /\ e.course_id \in Ids(courses)

\* C15 witness: a student without enrollments has been deleted, the other
\* student is enrolled, and the deletion of that enrollment's course has just
\* failed, leaving course and enrollment stored.
C15_Witness ==
    /\ last.op = "delete_course"
    /\ last.code = 500
    /\ Cardinality(students) = 1
    /\ \E e \in enrollments :
          e.student_id \in Ids(students) /\ e.course_id \in Ids(courses)

-----------------------------------------------------------------------------
(* Properties of error responses *)

\* The error codes of the handlers' HTTPExceptions, and 401 of the
\* authentication dependency.
ErrorCodes == {400, 401, 403, 404}

\* Response r is not an error, or leaves the store as it was.
Harmless(r) == r.code \in ErrorCodes => r.db = DB

\* C14: a request answered 400, 401, 403 or 404 leaves the whole store as it
\* was before the request, for every handler, principal and arguments.
C14_ErrorsChangeNothing ==
    /\ \A email \in KeyArgs(users, "email"), role \in UserRole :
          Harmless(register_user(DB, [email |-> email, role |-> role]))
    /\ \A u \in users :
        /\ \A uid \in IdArgs(users) :
              /\ \A key \in KeyArgs(students, "student_id") :
                    Harmless(create_student(DB, u,
                                 [user_id |-> uid, student_id |-> key]))
              /\ \A key \in KeyArgs(instructors, "employee_id") :
                    Harmless(create_instructor(DB, u,
                                 [user_id |-> uid, employee_id |-> key,
                                  department |-> "cs"]))
        /\ \A iid \in IdArgs(instructors), key \in KeyArgs(courses, "course_code"),
              cap \in Capacities :
              Harmless(create_course(DB, u,
                           [course_code |-> key, instructor_id |-> iid,
                            max_students |-> cap]))
        /\ \A sid \in IdArgs(students) :
              /\ Harmless(get_student(DB, u, sid))
              /\ Harmless(delete_student(DB, u, sid))
              /\ \A body \in StudentUpdates :
                    Harmless(update_student(DB, u, sid, body))
              /\ \A cid \in IdArgs(courses) :
                    Harmless(create_enrollment(DB, u, EnrollmentData(sid, cid)))
        /\ \A iid \in IdArgs(instructors) :
              /\ Harmless(get_instructor(DB, u, iid))
              /\ Harmless(delete_instructor(DB, u, iid))
              /\ \A body \in InstructorUpdates :
                    Harmless(update_instructor(DB, u, iid, body))
        /\ \A cid \in IdArgs(courses) :
              /\ Harmless(get_course(DB, u, cid))
              /\ Harmless(delete_course(DB, u, cid))
              /\ \A body \in CourseUpdates :
                    Harmless(update_course(DB, u, cid, body))
        /\ \A eid \in IdArgs(enrollments) :
              /\ Harmless(get_enrollment(DB, u, eid))
              /\ Harmless(delete_enrollment(DB, u, eid))
              /\ \A body \in EnrollmentUpdates :
                    Harmless(update_enrollment(DB, u, eid, body))

\* C14 witness: after updates that were carried out, an update_enrollment
\* request has just been refused with 403, and the rows are still the updated
\* ones.
C14_Witness ==
    /\ last.op = "update_enrollment"
    /\ last.code = 403
    /\ \E e \in enrollments : e.grade # "None" /\ e.status # "enrolled"

-----------------------------------------------------------------------------
(* Properties of the principals of a request (SpecFaculty) *)

\* The principals an enrollment may be shown to: an admin, the owner of its
\* Student profile, the owner of the Instructor of its course.
MayView(u, e) ==
    IsAdmin(u) \/ OwnsStudent(u, e.student_id) \/ OwnsCourse(u, e.course_id)

\* C16: get_enrollment, get_enrollments, get_course_enrollments and
\* get_student_enrollments return an enrollment only to an admin, to the
\* owner of the enrollment's Student profile or to the owning instructor of
\* its course.
C16_ReadsAreFiltered ==
    \A u \in users :
        /\ \A e \in enrollments :
              get_enrollment(DB, u, e.id).code = 200 => MayView(u, e)
        /\ \A sid \in {Absent} \cup IdArgs(students),
              cid \in {Absent} \cup IdArgs(courses) :
              \A e \in get_enrollments(DB, u, sid, cid).rows : MayView(u, e)
        /\ \A cid \in IdArgs(courses) :
              LET r == get_course_enrollments(DB, u, cid)
              IN  r.code = 200 => \A e \in r.rows : MayView(u, e)
        /\ \A sid \in IdArgs(students) :
              LET r == get_student_enrollments(DB, u, sid)
              IN  r.code = 200 => \A e \in r.rows : MayView(u, e)

\* C17: create_enrollment for a stored student and a stored course inserts a
\* row only if the principal is admin, or owns the Student profile, or owns
\* the Instructor profile of the course; any other principal is answered 403
\* and the store is unchanged.
C17_CreateEnrollmentPrincipals ==
    \A u \in users, s \in students, c \in courses :
        LET r == create_enrollment(DB, u, EnrollmentData(s.id, c.id))
        IN  /\ r.db # DB => MayCreateEnrollment(u, s.id, c.id)
            /\ ~MayCreateEnrollment(u, s.id, c.id)
                  => r.code = 403 /\ r.db = DB

\* C17 witness: a student has been enrolled in the course of the second
\* instructor, and a create_enrollment request of a principal the operation
\* does not authorize has just been answered 403.
C17_Witness ==
    /\ last.op = "create_enrollment"
    /\ last.code = 403
    /\ last.detail = "Not authorized to create enrollment"
    /\ \E e \in enrollments : e.course_id = 2
    /\ \E u \in users, s \in students, c \in courses :
          ~MayCreateEnrollment(u, s.id, c.id)

-----------------------------------------------------------------------------
(* Properties of the principals of course requests (SpecCourse) *)

\* The bodies of CourseUpdate over max_students and instructor_id, the
\* latter naming a stored instructor.
CourseBodies ==
    Bodies2("max_students", Capacities, "instructor_id", Ids(instructors))

\* C18: update_course on a stored course is carried out if and only if the
\* principal is admin or owns the Instructor the course's current
\* instructor_id names; every other principal, instructors of other courses
\* and students included, is answered 403 and the course is unchanged.
C18_UpdateCoursePrincipals ==
    \A u \in users, c \in courses, body \in CourseBodies :
        LET r == update_course(DB, u, c.id, body)
        IN  IF IsAdmin(u) \/ OwnsCourse(u, c.id)
            THEN /\ r.code = 200
                 /\ r.db.courses = (courses \ {c}) \cup {ApplyUpdate(c, body)}
            ELSE /\ r.code = 403
                 /\ r.db = DB

\* C18 witness: the course created for the first instructor has been handed
\* to the second one, who has just updated it; the first instructor no
\* longer owns it.
C18_Witness ==
    /\ last.op = "update_course"
    /\ last.code = 200
    /\ last.args.course_id = 1
    /\ "max_students" \in DOMAIN last.args.body
    /\ \E u \in users, c \in courses :
          /\ u.id = last.user
          /\ c.id = 1
          /\ c.instructor_id = 2
          /\ c.max_students = last.args.body.max_students
          /\ ~IsAdmin(u)
          /\ OwnsCourse(u, 1)

\* C19: delete_course on a stored course, sent by the instructor who owns the
\* course, succeeds and removes the course (as it does for an admin).
C19_OwnerDeletesCourse ==
    \A u \in users, c \in courses :
        ((IsAdmin(u) \/ OwnsCourse(u, c.id))
           /\ dependents(enrollments, "course_id", c.id) = {})
        => LET r == delete_course(DB, u, c.id)
           IN  /\ r.code = 200
               /\ r.db.courses = courses \ {c}

-----------------------------------------------------------------------------
(* Properties of the admin-only operations (SpecDir) *)

\* Response r is a 403 that leaves the store as it was.
Forbidden(r) == r.code = 403 /\ r.db = DB

-----------------------------------------------------------------------------
(* Properties of the principals of profile updates (SpecProfile) *)

\* C21: update_student and update_instructor on a stored profile change the
\* store only if the principal is admin or the User whose id is the
\* profile's user_id; every other principal is answered 403 and the store is
\* unchanged.
C21_UpdateProfilePrincipals ==
    \A u \in users :
        /\ \A st \in students, body \in StudentUpdates :
              LET r == update_student(DB, u, st.id, body)
              IN  /\ r.db # DB => (IsAdmin(u) \/ u.id = st.user_id)
                  /\ ~(IsAdmin(u) \/ u.id = st.user_id)
                        => r.code = 403 /\ r.db = DB
        /\ \A i \in instructors, body \in InstructorUpdates :
              LET r == update_instructor(DB, u, i.id, body)
              IN  /\ r.db # DB => (IsAdmin(u) \/ u.id = i.user_id)
                  /\ ~(IsAdmin(u) \/ u.id = i.user_id)
                        => r.code = 403 /\ r.db = DB

\* C21 witness: a student has updated their own profile, and an
\* update_student request of another principal has just been answered 403;
\* the other student's profile is as it was created.
C21_Witness ==
    /\ last.op = "update_student"
    /\ last.code = 403
    /\ \E a \in students, b \in students :
          a.address = "home" /\ b.address = "None"
    /\ \E u \in users, st \in students :
          u.role \in {"student", "instructor"} /\ u.id # st.user_id

-----------------------------------------------------------------------------
(* Properties of the course read paths (SpecCount) *)

\* The CourseRead rows carry the number of enrolled rows of their course.
Counted(rows) ==
    \A c \in rows :
        c.enrolled_count = Cardinality(ActiveOfCourse(enrollments, c.id))

\* C22: get_course, get_courses and get_instructor_courses return, for each
\* course, an enrolled_count equal to the number of Enrollment rows of the
\* course whose status is enrolled when the request is served.
C22_EnrolledCountOnReads ==
    \A u \in users :
        /\ \A c \in courses : Counted(get_course(DB, u, c.id).rows)
        /\ Counted(get_courses(DB, u).rows)
        /\ \A i \in instructors : Counted(get_instructor_courses(DB, u, i.id).rows)

-----------------------------------------------------------------------------
(* Properties of concurrent creations with one natural key (SpecDir) *)

\* C23: a creation request that runs concurrently with another one carrying
\* the same natural key ends in success or in the 400 conflict response: the
\* commit of a creation that passed its checks is never answered with a
\* failure of the store.
C23_ConcurrentCreationsMapped ==
    last.op = "commit" => last.code \in {200, 400}

-----------------------------------------------------------------------------
(* Properties of the reference from courses to instructors (SpecCourse) *)

\* C24: every Course row's instructor_id is the id of a stored Instructor,
\* whatever create_course, update_course and delete_instructor requests were
\* answered.
C24_CourseReferences ==
    \A c \in courses : c.instructor_id \in Ids(instructors)

-----------------------------------------------------------------------------
(* Properties of deletions (SpecRef) *)

\* The response r of a delete request on table t for id, sent to the store
\* db, removed exactly the row of that id: the table lost that row and no
\* other, and every other table is as it was.
RemovedExactly(db, t, id, r) ==
    /\ First(db[t], id) # NoRow
    /\ r.db[t] = db[t] \ {First(db[t], id)}
    /\ \A other \in DOMAIN db \ {t} : r.db[other] = db[other]

\* C25: a delete_course, delete_student, delete_instructor or
\* delete_enrollment request answered 200 removes exactly the targeted row,
\* every other row of every table stays as it was (no dependent Enrollment or
\* Course row is deleted or modified), and a get of the deleted id by any
\* principal is then answered 404.
C25_DeleteRemovesOneRow ==
    \A u \in get_current_active_user(DB) :
        /\ \A id \in IdArgs(courses) :
              LET r == delete_course(DB, u, id) IN
              r.code = HTTP_200_OK =>
                  /\ RemovedExactly(DB, "courses", id, r)
                  /\ \A v \in get_current_active_user(r.db) :
                        get_course(r.db, v, id).code = HTTP_404_NOT_FOUND
        /\ \A id \in IdArgs(students) :
              LET r == delete_student(DB, u, id) IN
              r.code = HTTP_200_OK =>
                  /\ RemovedExactly(DB, "students", id, r)
                  /\ \A v \in get_current_active_user(r.db) :
                        get_student(r.db, v, id).code = HTTP_404_NOT_FOUND
        /\ \A id \in IdArgs(instructors) :
              LET r == delete_instructor(DB, u, id) IN
              r.code = HTTP_200_OK =>
                  /\ RemovedExactly(DB, "instructors", id, r)
                  /\ \A v \in get_current_active_user(r.db) :
                        get_instructor(r.db, v, id).code = HTTP_404_NOT_FOUND
        /\ \A id \in IdArgs(enrollments) :
              LET r == delete_enrollment(DB, u, id) IN
              r.code = HTTP_200_OK =>
                  /\ RemovedExactly(DB, "enrollments", id, r)
                  /\ \A v \in get_current_active_user(r.db) :
                        get_enrollment(r.db, v, id).code = HTTP_404_NOT_FOUND

\* C25 witness: a student has just been deleted by a request answered 200,
\* the other student, their enrollment and its course are still stored, and a
\* get of the deleted id is answered 404.
C25_Witness ==
    /\ last.op = "delete_student"
    /\ last.code = HTTP_200_OK
    /\ last.args.student_id \notin Ids(students)
    /\ \E e \in enrollments :
          e.student_id \in Ids(students) /\ e.course_id \in Ids(courses)
    /\ \A v \in get_current_active_user(DB) :
          get_student(DB, v, last.args.student_id).code = HTTP_404_NOT_FOUND

-----------------------------------------------------------------------------
(* Properties of concurrent create_enrollment requests (SpecConc) *)

\* C26: of two create_enrollment requests for the same (student, course) pair
\* that run concurrently, at most one is answered 200 (and inserts its
\* enrolled row).
C26_OneOfSamePairSucceeds ==
    \A i, j \in 1..NumRequests :
        (/\ i # j
         /\ reqs[i].pc = "done"
         /\ reqs[j].pc = "done"
         /\ reqs[i].data = reqs[j].data
         /\ reqs[i].code = HTTP_200_OK)
        => reqs[j].code # HTTP_200_OK

-----------------------------------------------------------------------------
(* Properties of the seats of a course, requests handled one at a time *)

\* C27: after any sequence of create_enrollment, update_enrollment and
\* update_course requests handled one at a time, the count of enrolled rows
\* of each course, as create_enrollment counts them, is at most the course's
\* max_students.
C27_CapacityKeptByEveryOperation ==
    \A course \in courses :
        enrolled_count(DB, course.id) <= course.max_students

-----------------------------------------------------------------------------
(* Properties of registration (SpecDir) *)

\* The bodies of a register request (UserCreate): an email in use or not, any
\* role, and is_active either way.
UserCreates ==
    {[email |-> email, role |-> role, is_active |-> active] :
        email \in KeyArgs(users, "email"), role \in UserRole,
        active \in BOOLEAN}

\* C28: register_user takes no principal; for every role, admin included, a
\* request with an email no user has is answered 200 and stores one new
\* User with the email and exactly the role of the request and is_active
\* true, changing nothing else; a request with a stored email is answered 400
\* and stores nothing; there is no other answer.
C28_RegisterStoresGivenRole ==
    \A user_data \in UserCreates :
        LET r == register_user(DB, user_data)
            taken == \E u \in users : u.email = user_data.email
        IN  IF taken
            THEN r.code = HTTP_400_BAD_REQUEST /\ r.db = DB
            ELSE /\ r.code = HTTP_200_OK
                 /\ \E u \in r.db.users :
                       /\ u \notin users
                       /\ u.id \notin Ids(users)
                       /\ u.email = user_data.email
                       /\ u.role = user_data.role
                       /\ u.is_active = TRUE
                       /\ r.db = [DB EXCEPT !.users = users \cup {u}]

\* C28 witness: a register request with role admin has just been answered
\* 200 and the store holds a second active admin.
C28_Witness ==
    /\ last.op = "register_user"
    /\ last.code = HTTP_200_OK
    /\ last.args.role = ADMIN
    /\ \E u \in users :
          /\ u.email = last.args.email
          /\ u.role = ADMIN
          /\ u.is_active = TRUE
          /\ \E other \in users : other.id # u.id /\ other.role = ADMIN

-----------------------------------------------------------------------------
(* Properties of the owners of profiles (SpecOwner) *)

\* The elif conditions of update_enrollment (lines 216 and 226) for
\* principal u and enrollment e: u is the user of e's student; u is the user
\* of the instructor of e's course.
StudentBranch(u, e) ==
    LET student == First(students, e.student_id)
    IN  student # NoRow /\ u.id = student.user_id

InstructorBranch(u, e) ==
    LET course == First(courses, e.course_id)
        instructor == IF course # NoRow
                      THEN First(instructors, course.instructor_id)
                      ELSE NoRow
    IN  instructor # NoRow /\ u.id = instructor.user_id

\* C29: no User is the user of a Student profile and of an Instructor
\* profile at once: create_student and create_instructor answer no request
\* 200 that would give a profile of the other kind to the owner of a profile;
\* so for every enrollment a principal who is not admin matches at most one of
\* the student-owner and owning-instructor branches of update_enrollment.
C29_OneProfileKindPerUser ==
    /\ \A s \in students, i \in instructors : s.user_id # i.user_id
    /\ \A u \in users, i \in instructors :
          \A key \in KeyArgs(students, "student_id") :
              create_student(DB, u, [user_id |-> i.user_id, student_id |-> key]).code
                  # HTTP_200_OK
    /\ \A u \in users, s \in students :
          \A key \in KeyArgs(instructors, "employee_id") :
              create_instructor(DB, u, [user_id |-> s.user_id, employee_id |-> key,
                                        department |-> "cs"]).code
                  # HTTP_200_OK
    /\ \A e \in enrollments, u \in users :
          ~IsAdmin(u) => ~(StudentBranch(u, e) /\ InstructorBranch(u, e))

\* C29 witness: a profile has just been created by a request, both kinds of
\* profile are stored, and an enrollment is stored whose student-owner branch
\* one user matches and whose owning-instructor branch another user matches.
C29_Witness ==
    /\ last.op \in {"create_student", "create_instructor"}
    /\ last.code = HTTP_200_OK
    /\ Cardinality(students) + Cardinality(instructors) >= 3
    /\ \E e \in enrollments, u \in users, v \in users :
          /\ StudentBranch(u, e)
          /\ InstructorBranch(v, e)
          /\ u # v

====
